---- MODULE Spec2Model ----
(***************************************************************************)
(* Model of lizmap/project_checker_tools.py: the project checks of the     *)
(* Lizmap plugin (safeguards, primary keys, duplicated names, duplicated   *)
(* datasources with filters, provider side optimisations, trailing spaces  *)
(* in legend names).                                                       *)
(*                                                                         *)
(* Strings the code inspects character by character (paths, legend names)  *)
(* are sequences of one-character strings; strings it only compares are    *)
(* TLA+ strings.                                                           *)
(***************************************************************************)
EXTENDS Integers, Sequences, FiniteSets, TLC

VARIABLES
    mapLayers,      \* project.mapLayers().values(): the layers, in iteration order
    tree,           \* project.layerTreeRoot(): the legend, a sequence of nodes
    call,           \* the last check that ran and its arguments
    results,        \* what the last check returned
    trace,          \* per layer, what the last check did (rules evaluated, entries written)
    fixed,          \* per fixing rule, the layers a run with fix=True has reported
    edited,         \* the entities the host has corrected since the project was loaded
    projectHome     \* project.absolutePath()

vars == <<mapLayers, tree, call, results, trace, fixed, edited, projectHome>>

----------------------------------------------------------------------------
(* Bounds *)

MaxLayers == 2

\* nodes of the legend (groups and layers)
MaxNodes == 3

----------------------------------------------------------------------------
(* Python str operations, on sequences of characters *)

RECURSIVE Fold(_, _, _)
\* functools.reduce over a sequence, left to right
Fold(Op(_, _), acc, seq) ==
    IF seq = <<>> THEN acc ELSE Fold(Op, Op(acc, Head(seq)), Tail(seq))

\* s in t
Contains(t, s) ==
    \E i \in 0..(Len(t) - Len(s)) : SubSeq(t, i + 1, i + Len(s)) = s

\* t.endswith(s)
EndsWith(t, s) ==
    /\ Len(s) <= Len(t)
    /\ SubSeq(t, Len(t) - Len(s) + 1, Len(t)) = s

LowerChar(c) ==
    CASE c = "E" -> "e"
      [] c = "C" -> "c"
      [] c = "W" -> "w"
      [] c = "A" -> "a"
      [] OTHER -> c

\* t.lower()
Lower(t) == [i \in 1..Len(t) |-> LowerChar(t[i])]

RECURSIVE LStrip(_)
LStrip(s) == IF s # <<>> /\ Head(s) = " " THEN LStrip(Tail(s)) ELSE s

RECURSIVE RStrip(_)
RStrip(s) ==
    IF s # <<>> /\ s[Len(s)] = " " THEN RStrip(SubSeq(s, 1, Len(s) - 1)) ELSE s

\* s.strip()
Strip(s) == RStrip(LStrip(s))

RECURSIVE Join(_, _)
\* sep.join(parts)
Join(sep, parts) ==
    IF parts = <<>> THEN <<>>
    ELSE IF Len(parts) = 1 THEN parts[1]
    ELSE parts[1] \o sep \o Join(sep, Tail(parts))

\* a dict entry written: d[k] = v
Put(d, k, v) == [x \in (DOMAIN d) \cup {k} |-> IF x = k THEN v ELSE d[x]]

EmptyDict == [x \in {} |-> {}]

----------------------------------------------------------------------------
(* os.path *)

Sep == <<"/">>
ParDir == <<".", ".">>
CurDir == <<".">>

RECURSIVE NormSegs(_, _)
\* os.path.normpath of an absolute path: "." and "" dropped, ".." pops
NormSegs(segs, acc) ==
    IF segs = <<>> THEN acc
    ELSE LET s == Head(segs) IN
         IF s = <<>> \/ s = CurDir THEN NormSegs(Tail(segs), acc)
         ELSE IF s = ParDir
              THEN NormSegs(Tail(segs),
                            IF acc = <<>> THEN acc ELSE SubSeq(acc, 1, Len(acc) - 1))
              ELSE NormSegs(Tail(segs), Append(acc, s))

RECURSIVE CommonLen(_, _)
CommonLen(a, b) ==
    IF a = <<>> \/ b = <<>> \/ Head(a) # Head(b) THEN 0
    ELSE 1 + CommonLen(Tail(a), Tail(b))

\* relpath raises ValueError when path and start are on different drives
RelPathRaises(path, start) == path.drive # start.drive

\* the segments of os.path.relpath(path, start)
RelPathSegs(path, start) ==
    LET p == NormSegs(path.segs, <<>>)
        s == NormSegs(start.segs, <<>>)
        i == CommonLen(s, p)
        rel == [k \in 1..(Len(s) - i) |-> ParDir] \o SubSeq(p, i + 1, Len(p))
    IN  IF rel = <<>> THEN <<CurDir>> ELSE rel

\* os.path.relpath(path, start)
RelPath(path, start) == Join(Sep, RelPathSegs(path, start))

\* str(path)
PathString(path) == <<path.drive, ":">> \o Sep \o Join(Sep, path.segs)

----------------------------------------------------------------------------
(* The host's layers: QgsMapLayer with its QgsDataSourceUri and provider *)

\* lizmap.definitions.lizmap_cloud.CLOUD_DOMAIN
CLOUD_DOMAIN == <<"l", "i", "z", "m", "a", "p", ".", "c", "o", "m">>

\* lizmap.widgets.check_project.RASTER_COUNT_CELL, scaled to the rasters of the model
RASTER_COUNT_CELL == 4

ECW == <<"e", "c", "w">>

BaseLayer ==
    [id |-> 0, name |-> <<"A">>, kind |-> "vector", provider |-> "ogr",
     geometry |-> "other",
     authcfg |-> "", service |-> "", host |-> <<>>, username |-> "", password |-> "",
     table |-> "", sql |-> "", keyColumn |-> "", estimatedMetadata |-> FALSE,
     hasPath |-> FALSE, path |-> [drive |-> "C", segs |-> <<>>], exists |-> "yes",
     hasPyramids |-> FALSE, width |-> 1, height |-> 1,
     pkAttributes |-> <<>>, fields |-> <<>>, forceLocal |-> FALSE]

\* layer.source(): the path for a file based layer, a connection string otherwise
Source(layer) ==
    IF layer.hasPath THEN PathString(layer.path) ELSE <<"u", "r", "i">>

\* the layers of a project: the samples in any order, the id is the position
WithIds(seq) == [i \in 1..Len(seq) |-> [seq[i] EXCEPT !.id = i]]

Projects(samples) ==
    {WithIds(seq) : seq \in UNION {[1..n -> samples] : n \in 0..MaxLayers}}

LayerIds == {mapLayers[i].id : i \in 1..Len(mapLayers)}

\* lizmap.tools.is_vector_pg
is_vector_pg(layer, geometry_check) ==
    /\ layer.kind = "vector"
    /\ layer.provider = "postgres"
    /\ (geometry_check => layer.geometry # "none")

----------------------------------------------------------------------------
(* project_safeguards_checks *)

\* One layer's pass through the loop body: acc.rules is the sequence of rules whose
\* condition was evaluated, acc.writes the categories assigned to results[layer].
Evaluated(acc, rule) == [acc EXCEPT !.rules = Append(@, rule)]

Written(acc, category) == [acc EXCEPT !.writes = Append(@, category)]

NoTrace == [rules |-> <<>>, writes |-> <<>>]

EcwRule(layer, a, acc) ==
    IF layer.kind = "raster"
    THEN LET e == Evaluated(acc, "PreventEcw") IN
         IF EndsWith(Lower(Source(layer)), ECW) /\ a.prevent_ecw
         THEN Written(e, "PreventEcw") ELSE e
    ELSE acc

\* a rule that looks for ".." whatever the user allowed
ParentFolderRuleStrictOnly(relative_path, a, acc) ==
    LET p == Evaluated(acc, "PreventParentFolder") IN
    IF Contains(relative_path, ParDir)
    THEN Written(p, "PreventParentFolder") ELSE p

ParentFolderRule(relative_path, a, acc) ==
    LET p == Evaluated(acc, "PreventParentFolder") IN
    IF a.allow_parent_folder
    THEN IF Contains(relative_path, a.parent_folder)
         THEN Written(p, "PreventParentFolder") ELSE p
    ELSE IF Contains(relative_path, ParDir)
         THEN Written(p, "PreventParentFolder") ELSE p

PyramidRule(layer, acc) ==
    IF layer.kind = "raster"
    THEN LET r == Evaluated(acc, "RasterWithoutPyramid") IN
         IF ~layer.hasPyramids /\ layer.width * layer.height >= RASTER_COUNT_CELL
         THEN Written(r, "RasterWithoutPyramid") ELSE r
    ELSE acc

\* a ValueError handler that reads only prevent_other_drive
FileRulesCloudForgotten(layer, home, a, acc) ==
    IF ~layer.hasPath THEN acc
    ELSE IF layer.exists # "yes" THEN acc
    ELSE IF RelPathRaises(layer.path, home)
         THEN LET d == Evaluated(acc, "PreventDrive") IN
              IF a.prevent_other_drive
              THEN Written(d, "PreventDrive") ELSE d
         ELSE PyramidRule(layer, ParentFolderRule(RelPath(layer.path, home), a, acc))

FileRules(layer, home, a, acc) ==
    IF ~layer.hasPath THEN acc
    ELSE IF layer.exists # "yes" THEN acc
    ELSE IF RelPathRaises(layer.path, home)
         THEN LET d == Evaluated(acc, "PreventDrive") IN
              IF a.lizmap_cloud \/ a.prevent_other_drive
              THEN Written(d, "PreventDrive") ELSE d
         ELSE PyramidRule(layer, ParentFolderRule(RelPath(layer.path, home), a, acc))

\* a loop body without the continue after AuthenticationDb
PgRulesNoContinue(layer, home, a, acc) ==
    IF is_vector_pg(layer, FALSE)
    THEN LET a1 == Evaluated(acc, "AuthenticationDb")
             a1w == IF layer.authcfg # "" /\ a.prevent_auth_id
                    THEN Written(a1, "AuthenticationDb") ELSE a1
             a2 == Evaluated(a1w, "PgService")
         IN  IF layer.service # "" /\ a.prevent_service
             THEN Written(a2, "PgService")
             ELSE IF layer.service = ""
                  THEN LET a3 == Evaluated(a2, "PgForceUserPass") IN
                       IF EndsWith(layer.host, CLOUD_DOMAIN) \/ a.force_pg_user_pass
                       THEN IF layer.username = "" \/ layer.password = ""
                            THEN Written(a3, "PgForceUserPass") ELSE a3
                       ELSE FileRules(layer, home, a, a3)
                  ELSE FileRules(layer, home, a, a2)
    ELSE FileRules(layer, home, a, acc)

PgRules(layer, home, a, acc) ==
    IF is_vector_pg(layer, FALSE)
    THEN LET a1 == Evaluated(acc, "AuthenticationDb") IN
         IF layer.authcfg # "" /\ a.prevent_auth_id
         THEN Written(a1, "AuthenticationDb")
         ELSE LET a2 == Evaluated(a1, "PgService") IN
              IF layer.service # "" /\ a.prevent_service
              THEN Written(a2, "PgService")
              ELSE IF layer.service = ""
                   THEN LET a3 == Evaluated(a2, "PgForceUserPass") IN
                        IF EndsWith(layer.host, CLOUD_DOMAIN) \/ a.force_pg_user_pass
                        THEN IF layer.username = "" \/ layer.password = ""
                             THEN Written(a3, "PgForceUserPass") ELSE a3
                        ELSE FileRules(layer, home, a, a3)
                   ELSE FileRules(layer, home, a, a2)
    ELSE FileRules(layer, home, a, acc)

\* the loop body for one layer
SafeguardLayer(layer, home, a) == PgRules(layer, home, a, EcwRule(layer, a, NoTrace))

\* the dict the function returns: every write is results[SourceLayer(name, id)] = category
SafeguardResults(layers, home, a) ==
    LET Body(res, layer) ==
            LET PutIn(r, category) == Put(r, layer.id, category)
            IN  Fold(PutIn, res, SafeguardLayer(layer, home, a).writes)
    IN  Fold(Body, EmptyDict, layers)

SafeguardTrace(layers, home, a) ==
    [i \in 1..Len(layers) |-> SafeguardLayer(layers[i], home, a)]

NoCall == [fn |-> "none", args |-> <<>>]

project_safeguards_checks(a) ==
    /\ call' = [fn |-> "project_safeguards_checks", args |-> a]
    /\ results' = SafeguardResults(mapLayers, projectHome, a)
    /\ trace' = SafeguardTrace(mapLayers, projectHome, a)
    /\ UNCHANGED <<mapLayers, tree, fixed, edited, projectHome>>

----------------------------------------------------------------------------
(* Projects and arguments of the safeguard checks *)

Home == [drive |-> "C", segs |-> <<<<"p">>, <<"q">>>>]

CloudHost == <<"d", "b", ".">> \o CLOUD_DOMAIN
LocalHost == <<"l", "o", "c", "a", "l">>

PgLayer(authcfg, service, host, cred) ==
    [BaseLayer EXCEPT !.provider = "postgres", !.authcfg = authcfg, !.service = service,
                      !.host = host, !.username = cred[1], !.password = cred[2]]

PgSamples ==
    {PgLayer(c, s, h, cred) :
        c \in {"", "cfg"}, s \in {"", "svc"}, h \in {CloudHost, LocalHost},
        cred \in {<<"user", "pw">>, <<"user", "">>, <<"", "pw">>}}

FileLayer(kind, path, exists) ==
    [BaseLayer EXCEPT !.kind = kind, !.provider = IF kind = "raster" THEN "gdal" ELSE "ogr",
                      !.hasPath = TRUE, !.path = path, !.exists = exists]

Raster(path, hasPyramids, width) ==
    [FileLayer("raster", path, "yes") EXCEPT !.hasPyramids = hasPyramids,
                                            !.width = width, !.height = 2]

WmsLayer == [BaseLayer EXCEPT !.kind = "raster", !.provider = "wms"]

P(drive, segs) == [drive |-> drive, segs |-> segs]

InProject == P("C", <<<<"p">>, <<"q">>, <<"a">>>>)                  \* a
DottedName == P("C", <<<<"p">>, <<"q">>, <<"a", ".", ".", "b">>>>)   \* a..b
InParent == P("C", <<<<"p">>, <<"a">>>>)                           \* ../a
InOther == P("C", <<<<"o">>, <<"a">>>>)                           \* ../../o/a
InSibling == P("C", <<<<"p">>, <<"o", "x">>, <<"a">>>>)             \* ../ox/a
OtherDrive == P("D", <<<<"a">>>>)
EcwInProject == P("C", <<<<"p">>, <<"q">>, <<"r", ".", "E", "C", "W">>>>)   \* r.ECW
EcwEscaping == P("C", <<<<"p">>, <<"q">>, <<"s">>, ParDir, ParDir, <<"o", "x">>,
                         <<"r", ".", "e", "c", "w">>>>)                \* ../ox/r.ecw
EcwOtherDrive == P("D", <<<<"r", ".", "e", "c", "w">>>>)

VectorPaths == {InProject, DottedName, InParent, InOther, InSibling, OtherDrive}
RasterPaths == {InProject, InOther, OtherDrive, EcwInProject, EcwEscaping, EcwOtherDrive}

FileSamples ==
    {FileLayer("vector", p, "yes") : p \in VectorPaths}
    \cup {Raster(p, pyr[1], pyr[2]) :
            p \in RasterPaths, pyr \in {<<FALSE, 2>>, <<TRUE, 2>>, <<FALSE, 1>>}}
    \cup {FileLayer("vector", InOther, "no"), FileLayer("raster", EcwEscaping, "oserror")}

Tokens == {<<"o">>, <<"o", "x">>, ParDir \o Sep \o ParDir}

SafeguardArgs(pg, tokens) ==
    [prevent_ecw : BOOLEAN, prevent_auth_id : pg, prevent_service : pg,
     force_pg_user_pass : pg, prevent_other_drive : BOOLEAN,
     allow_parent_folder : BOOLEAN, parent_folder : tokens, lizmap_cloud : BOOLEAN]

InitProject(projects) ==
    /\ mapLayers \in projects
    /\ tree = <<>>
    /\ call = NoCall
    /\ results = EmptyDict
    /\ trace = <<>>
    /\ fixed = {}
    /\ edited = {}
    /\ projectHome = Home

\* PostgreSQL layers beside file based ones, every combination of the toggles
InitPg ==
    InitProject(Projects(PgSamples \cup {FileLayer("vector", InParent, "yes"),
                                         Raster(EcwInProject, FALSE, 2), WmsLayer}))

\* one pass per loaded project: a second pass over the same project returns the same
NextPg ==
    /\ call = NoCall
    /\ \E a \in SafeguardArgs(BOOLEAN, {<<"o">>}) : project_safeguards_checks(a)

SpecPg == InitPg /\ [][NextPg]_vars

\* file based layers, every combination of the toggles and tokens the file rules read
InitFile ==
    InitProject(Projects(FileSamples \cup {WmsLayer, PgLayer("cfg", "", LocalHost, <<"", "">>)}))

NextFile ==
    /\ call = NoCall
    /\ \E a \in SafeguardArgs({FALSE}, Tokens) : project_safeguards_checks(a)

SpecFile == InitFile /\ [][NextFile]_vars

Checked(fn) == call.fn = fn

IsPgVector(layer) == layer.kind = "vector" /\ layer.provider = "postgres"

PgCategories == {"AuthenticationDb", "PgService", "PgForceUserPass"}

RuleOrder ==
    <<"PreventEcw", "AuthenticationDb", "PgService", "PgForceUserPass",
      "PreventDrive", "PreventParentFolder", "RasterWithoutPyramid">>

Rank(rule) == CHOOSE i \in 1..Len(RuleOrder) : RuleOrder[i] = rule

Range(seq) == {seq[i] : i \in 1..Len(seq)}

Reported(id, category) == id \in DOMAIN results /\ results[id] = category

\* C1: a PostgreSQL vector layer reported as AuthenticationDb, PgService or
\* PgForceUserPass has no other category written for it in the pass, and no rule
\* that comes after the reported one is evaluated for it.
C1_ShortCircuit ==
    Checked("project_safeguards_checks") =>
        \A i \in 1..Len(mapLayers) :
            \A c \in PgCategories :
                (IsPgVector(mapLayers[i]) /\ Reported(mapLayers[i].id, c)) =>
                    /\ trace[i].writes = <<c>>
                    /\ \A r \in Range(trace[i].rules) : Rank(r) <= Rank(c)

\* a layer with an authentication configuration and a service, both prevented:
\* reported as AuthenticationDb, the service rule never looked at
C1_Witness ==
    /\ Checked("project_safeguards_checks")
    /\ call.args.prevent_auth_id /\ call.args.prevent_service
    /\ \E i \in 1..Len(mapLayers) :
        /\ IsPgVector(mapLayers[i])
        /\ mapLayers[i].authcfg # "" /\ mapLayers[i].service # ""
        /\ Reported(mapLayers[i].id, "AuthenticationDb")

----------------------------------------------------------------------------
(* The file rules *)

\* an existing file based layer, the case the path rules are about
ExistingFile(layer) == layer.hasPath /\ layer.exists = "yes"

Relative(layer) == ExistingFile(layer) /\ ~RelPathRaises(layer.path, projectHome)

CrossDrive(layer) == ExistingFile(layer) /\ RelPathRaises(layer.path, projectHome)

HasSegment(layer, segment) ==
    \E k \in 1..Len(RelPathSegs(layer.path, projectHome)) :
        RelPathSegs(layer.path, projectHome)[k] = segment

\* C4, as claimed: the rule decides PreventParentFolder exactly when ".." (strict mode)
\* or the allowed token (allow mode) is a path segment of the relative path.
C4_SegmentMatch ==
    Checked("project_safeguards_checks") =>
        \A i \in 1..Len(mapLayers) :
            Relative(mapLayers[i]) =>
                (("PreventParentFolder" \in Range(trace[i].writes))
                    <=> IF call.args.allow_parent_folder
                        THEN HasSegment(mapLayers[i], call.args.parent_folder)
                        ELSE HasSegment(mapLayers[i], ParDir))

\* the characters of the relative path, one by one
HasSubstring(layer, text) ==
    LET rel == RelPath(layer.path, projectHome) IN
    \E from \in 1..(Len(rel) + 1) :
        \A k \in 1..Len(text) : from + k - 1 <= Len(rel) /\ rel[from + k - 1] = text[k]

LargeWithoutPyramid(layer) ==
    /\ layer.kind = "raster"
    /\ ~layer.hasPyramids
    /\ layer.width * layer.height >= RASTER_COUNT_CELL

\* C4, amended: the rule writes PreventParentFolder exactly when ".." (strict mode) or
\* the token (allow mode) is a substring of the relative path, and the returned result
\* keeps it unless the layer is a large raster without pyramids, whose entry is
\* overwritten by RasterWithoutPyramid.
C4_SubstringMatch ==
    Checked("project_safeguards_checks") =>
        \A i \in 1..Len(mapLayers) :
            Relative(mapLayers[i]) =>
                LET hit == IF call.args.allow_parent_folder
                           THEN HasSubstring(mapLayers[i], call.args.parent_folder)
                           ELSE HasSubstring(mapLayers[i], ParDir)
                IN  /\ ("PreventParentFolder" \in Range(trace[i].writes)) <=> hit
                    /\ Reported(mapLayers[i].id, "PreventParentFolder")
                          <=> (hit /\ ~LargeWithoutPyramid(mapLayers[i]))

\* strict mode flags a..b, which has no ".." segment; allow mode with token o flags
\* ../ox/a, and with token ox does not flag ../../o/a, which escapes through ".."
C4_Witness ==
    /\ Checked("project_safeguards_checks")
    /\ \E i \in 1..Len(mapLayers) :
        /\ Relative(mapLayers[i])
        /\ Reported(mapLayers[i].id, "PreventParentFolder")
        /\ \/ ~call.args.allow_parent_folder /\ ~HasSegment(mapLayers[i], ParDir)
           \/ call.args.allow_parent_folder
                /\ ~HasSegment(mapLayers[i], call.args.parent_folder)
    /\ \E j \in 1..Len(mapLayers) :
        /\ Relative(mapLayers[j])
        /\ call.args.allow_parent_folder
        /\ HasSegment(mapLayers[j], ParDir)
        /\ mapLayers[j].id \notin DOMAIN results

PathRules == {"PreventDrive", "PreventParentFolder", "RasterWithoutPyramid"}

\* C5: a layer on another drive is reported as PreventDrive exactly when
\* prevent_other_drive or lizmap_cloud is set; when neither is, no path rule and no
\* pyramid rule writes or is evaluated for it beyond the drive test, and the pass
\* still covers every layer of the project.
C5_CrossDrive ==
    Checked("project_safeguards_checks") =>
        /\ Len(trace) = Len(mapLayers)
        /\ DOMAIN results \subseteq LayerIds
        /\ \A i \in 1..Len(mapLayers) :
            CrossDrive(mapLayers[i]) =>
                /\ Reported(mapLayers[i].id, "PreventDrive")
                      <=> (call.args.prevent_other_drive \/ call.args.lizmap_cloud)
                /\ ~(call.args.prevent_other_drive \/ call.args.lizmap_cloud) =>
                      /\ Range(trace[i].writes) \cap PathRules = {}
                      /\ Range(trace[i].rules) \cap {"PreventParentFolder",
                                                     "RasterWithoutPyramid"} = {}
                /\ trace[i].rules # <<>> /\ trace[i].rules[Len(trace[i].rules)] = "PreventDrive"

\* a large raster without pyramids on another drive, no toggle set: nothing from the
\* path rules, and the layer after it gets its finding
C5_Witness ==
    /\ Checked("project_safeguards_checks")
    /\ ~call.args.prevent_other_drive /\ ~call.args.lizmap_cloud
    /\ Len(mapLayers) = 2
    /\ CrossDrive(mapLayers[1]) /\ LargeWithoutPyramid(mapLayers[1])
    /\ Range(trace[1].writes) \cap PathRules = {}
    /\ Reported(mapLayers[2].id, "PreventParentFolder")

\* C6, as claimed: an ECW raster is reported under PreventEcw whenever prevent_ecw is
\* set, whatever the later rules decide for the layer.
C6_EcwReported ==
    Checked("project_safeguards_checks") =>
        \A i \in 1..Len(mapLayers) :
            (/\ mapLayers[i].kind = "raster"
             /\ EndsWith(Lower(Source(mapLayers[i])), <<".">> \o ECW)
             /\ call.args.prevent_ecw)
                => Reported(mapLayers[i].id, "PreventEcw")

----------------------------------------------------------------------------
(* project_invalid_pk, auto_generated_primary_key_field, invalid_int8_primary_key *)

\* layer.fields().names()
FieldNames(layer) == {layer.fields[k].name : k \in 1..Len(layer.fields)}

\* layer.fields().field(name): the first field of that name
FieldNamed(layer, name) ==
    layer.fields[CHOOSE k \in 1..Len(layer.fields) :
                    /\ layer.fields[k].name = name
                    /\ \A j \in 1..(k - 1) : layer.fields[j].name # name]

\* typeName().lower()
LowerTypeName(typeName) == IF typeName = "INT8" THEN "int8" ELSE typeName

\* the second member of the tuple is the key column, or None
AutoGeneratedNoFieldTest(layer) ==
    IF layer.keyColumn = "" THEN <<FALSE, "None">>
    ELSE IF Len(layer.pkAttributes) >= 2 THEN <<FALSE, "None">>
    ELSE <<TRUE, layer.keyColumn>>

auto_generated_primary_key_field(layer) ==
    IF layer.keyColumn = "" THEN <<FALSE, "None">>
    ELSE IF Len(layer.pkAttributes) >= 2 THEN <<FALSE, "None">>
    ELSE IF layer.keyColumn \in FieldNames(layer) THEN <<FALSE, "None">>
    ELSE <<TRUE, layer.keyColumn>>

invalid_int8_primary_key(layer) ==
    IF Len(layer.pkAttributes) # 1 THEN FALSE
    ELSE IF layer.keyColumn = "" THEN FALSE
    ELSE IF layer.keyColumn \notin FieldNames(layer) THEN FALSE
    ELSE LowerTypeName(FieldNamed(layer, layer.keyColumn).typeName) = "int8"

\* the two lists the function returns, as sequences of layer ids
InvalidPkResults(layers) ==
    LET Body(res, layer) ==
            IF layer.kind # "vector" THEN res
            ELSE [autogenerated_keys |->
                      IF auto_generated_primary_key_field(layer)[1]
                      THEN Append(res.autogenerated_keys, layer.id)
                      ELSE res.autogenerated_keys,
                  int8 |->
                      IF invalid_int8_primary_key(layer)
                      THEN Append(res.int8, layer.id)
                      ELSE res.int8]
    IN  Fold(Body, [autogenerated_keys |-> <<>>, int8 |-> <<>>], layers)

project_invalid_pk ==
    /\ call' = [fn |-> "project_invalid_pk", args |-> <<>>]
    /\ results' = InvalidPkResults(mapLayers)
    /\ trace' = <<>>
    /\ UNCHANGED <<mapLayers, tree, fixed, edited, projectHome>>

\* The host adds a field named after the key column to a layer that lacks it (the
\* correction the check asks for); edited remembers the layers that were reported.
AddKeyField(i, typeName) ==
    /\ mapLayers[i].kind = "vector"
    /\ mapLayers[i].keyColumn # ""
    /\ mapLayers[i].keyColumn \notin FieldNames(mapLayers[i])
    /\ mapLayers' = [mapLayers EXCEPT ![i].fields =
                        Append(@, [name |-> mapLayers[i].keyColumn, typeName |-> typeName])]
    /\ edited' = IF /\ Checked("project_invalid_pk")
                    /\ mapLayers[i].id \in Range(results.autogenerated_keys)
                 THEN edited \cup {mapLayers[i].id} ELSE edited
    /\ call' = NoCall
    /\ results' = EmptyDict
    /\ trace' = <<>>
    /\ UNCHANGED <<tree, fixed, projectHome>>

F(name, typeName) == [name |-> name, typeName |-> typeName]

FieldLists ==
    {<<>>, <<F("id", "int8")>>, <<F("id", "int4")>>,
     <<F("gid", "int4"), F("id", "int8")>>, <<F("id", "INT8"), F("id2", "int8")>>}

\* primaryKeyAttributes(): indexes of fields, in order
PkLists(fields) ==
    {pk \in {<<>>, <<1>>, <<2>>, <<1, 2>>} : \A k \in 1..Len(pk) : pk[k] <= Len(fields)}

PkSamples ==
    {[BaseLayer EXCEPT !.provider = "postgres", !.keyColumn = key,
                       !.fields = fp[1], !.pkAttributes = fp[2]] :
        key \in {"", "id", "ctid"},
        fp \in UNION {{<<f, pk>> : pk \in PkLists(f)} : f \in FieldLists}}
    \cup {WmsLayer}

InitPk == InitProject(Projects(PkSamples))

NextPk ==
    \/ call = NoCall /\ project_invalid_pk
    \/ \E i \in 1..Len(mapLayers) : \E t \in {"int8", "int4"} : AddKeyField(i, t)

SpecPk == InitPk /\ [][NextPk]_vars

IsVector(layer) == layer.kind = "vector"

\* C8, as claimed: a vector layer with a key column that is no field of the layer is
\* listed under the autogenerated keys, whatever its number of primary key attributes.
C8_AnyKeyCount ==
    Checked("project_invalid_pk") =>
        \A i \in 1..Len(mapLayers) :
            (/\ IsVector(mapLayers[i])
             /\ mapLayers[i].keyColumn # ""
             /\ \A k \in 1..Len(mapLayers[i].fields) :
                    mapLayers[i].fields[k].name # mapLayers[i].keyColumn)
                => mapLayers[i].id \in Range(results.autogenerated_keys)

\* C8, amended: a vector layer with a key column that is no field of the layer and
\* with fewer than two primary key attributes is listed under the autogenerated keys;
\* a layer that has a field of the key column's name, such as one the field was
\* added to after a report, is not listed.
C8_FewerThanTwoKeys ==
    Checked("project_invalid_pk") =>
        \A i \in 1..Len(mapLayers) :
            LET layer == mapLayers[i]
                listed == layer.id \in Range(results.autogenerated_keys)
                hasField == \E k \in 1..Len(layer.fields) :
                                layer.fields[k].name = layer.keyColumn
            IN  /\ (IsVector(layer) /\ layer.keyColumn # "" /\ ~hasField
                        /\ Len(layer.pkAttributes) < 2) => listed
                /\ hasField => ~listed
                /\ layer.id \in edited => ~listed

\* a layer was reported, got its field, and the next run does not list it,
\* while another layer of the same run is listed
C8_Witness ==
    /\ Checked("project_invalid_pk")
    /\ \E i \in 1..Len(mapLayers) :
        /\ mapLayers[i].id \in edited
        /\ mapLayers[i].id \notin Range(results.autogenerated_keys)
    /\ results.autogenerated_keys # <<>>

\* C9, as claimed: a layer is listed under int8 exactly when it has exactly one
\* primary key attribute, that attribute is the field named by the key column, and
\* the field's type name is int8.
C9_KeyIsTheInt8Field ==
    Checked("project_invalid_pk") =>
        \A i \in 1..Len(mapLayers) :
            LET layer == mapLayers[i] IN
            IsVector(layer) =>
                (layer.id \in Range(results.int8)
                    <=> /\ Len(layer.pkAttributes) = 1
                        /\ layer.fields[layer.pkAttributes[1]].name = layer.keyColumn
                        /\ LowerTypeName(layer.fields[layer.pkAttributes[1]].typeName)
                              = "int8")

----------------------------------------------------------------------------
(* The legend: QgsLayerTree.  tree[n] is a node, its parent an earlier group node *)
(* or 0 for the root; the children of a node are its nodes in index order.        *)

GroupNode(name, parent) == [kind |-> "group", name |-> name, layerId |-> 0, parent |-> parent]

LayerNode(layerId, parent) == [kind |-> "layer", name |-> <<>>, layerId |-> layerId, parent |-> parent]

\* QgsLayerTreeNode.children()
Children(t, p) == SelectSeq([n \in 1..Len(t) |-> n], LAMBDA n : t[n].parent = p)

\* project.mapLayer(layer_id)
MapLayer(layers, layerId) ==
    layers[CHOOSE i \in 1..Len(layers) : layers[i].id = layerId]

\* the display name of a node: the layer's name, or the group's
NodeName(t, layers, n) ==
    IF t[n].kind = "layer" THEN MapLayer(layers, t[n].layerId).name ELSE t[n].name

----------------------------------------------------------------------------
(* trailing_layer_group_name *)

\* acc.results is the list of Error(name, check, source) the function fills,
\* acc.visited the nodes in the order the loops reach them
Visit(acc, n, name, source) ==
    [visited |-> Append(acc.visited, n),
     results |-> IF Strip(name) # name
                 THEN Append(acc.results,
                             [name |-> name, check |-> "LeadingTrailingSpaceLayerGroupName",
                              source |-> source, node |-> n])
                 ELSE acc.results]

SourceLayer(layer) == [name |-> layer.name, id |-> layer.id]

\* a walk that does not descend into the groups
TrailingWalkChildrenOnly(t, layers, kids, acc) ==
    LET Body(a, n) ==
            IF t[n].kind = "layer"
            THEN Visit(a, n, MapLayer(layers, t[n].layerId).name,
                       SourceLayer(MapLayer(layers, t[n].layerId)))
            ELSE Visit(a, n, t[n].name, "SourceGroup")
    IN  Fold(Body, acc, kids)

RECURSIVE TrailingWalk(_, _, _, _)
\* the loop over layer_tree.children(), kids being the children still to come
TrailingWalk(t, layers, kids, acc) ==
    IF kids = <<>> THEN acc
    ELSE LET n == Head(kids) IN
         IF t[n].kind = "layer"
         THEN TrailingWalk(t, layers, Tail(kids),
                  Visit(acc, n, MapLayer(layers, t[n].layerId).name,
                        SourceLayer(MapLayer(layers, t[n].layerId))))
         ELSE TrailingWalk(t, layers, Tail(kids),
                  TrailingWalk(t, layers, Children(t, n),
                      Visit(acc, n, t[n].name, "SourceGroup")))

\* called on the root with an empty list
trailing_layer_group_name ==
    LET out == TrailingWalk(tree, mapLayers, Children(tree, 0),
                            [visited |-> <<>>, results |-> <<>>])
    IN  /\ call' = [fn |-> "trailing_layer_group_name", args |-> <<>>]
        /\ results' = out.results
        /\ trace' = out.visited
        /\ UNCHANGED <<mapLayers, tree, fixed, edited, projectHome>>

----------------------------------------------------------------------------
(* duplicated_layer_name_or_group *)

Count(d, name) == IF name \in DOMAIN d THEN Put(d, name, d[name] + 1) ELSE Put(d, name, 1)

DuplicatedNames(t, layers) ==
    LET LayerBody(d, layer) == Count(d, layer.name)
        GroupBody(d, n) == IF t[n].kind = "group" THEN Count(d, t[n].name) ELSE d
    IN  Fold(GroupBody, Fold(LayerBody, EmptyDict, layers), Children(t, 0))

duplicated_layer_name_or_group ==
    /\ call' = [fn |-> "duplicated_layer_name_or_group", args |-> <<>>]
    /\ results' = DuplicatedNames(tree, mapLayers)
    /\ trace' = <<>>
    /\ UNCHANGED <<mapLayers, tree, fixed, edited, projectHome>>

----------------------------------------------------------------------------
(* The host edits the legend *)

NameSet == {<<"A">>, <<"A", " ">>, <<" ", "B">>, <<"B">>}

Parents == {0} \cup {n \in 1..Len(tree) : tree[n].kind = "group"}

Stale ==
    /\ call' = NoCall
    /\ results' = EmptyDict
    /\ trace' = <<>>

AddGroup(name, parent) ==
    /\ Len(tree) < MaxNodes
    /\ tree' = Append(tree, GroupNode(name, parent))
    /\ Stale
    /\ UNCHANGED <<mapLayers, fixed, edited, projectHome>>

AddLayer(name, parent) ==
    /\ Len(tree) < MaxNodes
    /\ Len(mapLayers) < MaxLayers
    /\ mapLayers' = Append(mapLayers, [BaseLayer EXCEPT !.id = Len(mapLayers) + 1,
                                                        !.name = name])
    /\ tree' = Append(tree, LayerNode(Len(mapLayers) + 1, parent))
    /\ Stale
    /\ UNCHANGED <<fixed, edited, projectHome>>

\* the correction the check asks for: the name replaced by its trimmed form;
\* edited remembers the nodes that had a finding
RenameTrimmed(n) ==
    /\ Strip(NodeName(tree, mapLayers, n)) # NodeName(tree, mapLayers, n)
    /\ IF tree[n].kind = "layer"
       THEN /\ mapLayers' = [mapLayers EXCEPT ![tree[n].layerId].name = Strip(@)]
            /\ tree' = tree
       ELSE /\ tree' = [tree EXCEPT ![n].name = Strip(@)]
            /\ mapLayers' = mapLayers
    /\ edited' = IF /\ Checked("trailing_layer_group_name")
                    /\ \E k \in 1..Len(results) : results[k].node = n
                 THEN edited \cup {n} ELSE edited
    /\ Stale
    /\ UNCHANGED <<fixed, projectHome>>

InitNames == InitProject({<<>>})

NextNames ==
    \/ \E name \in NameSet : \E parent \in Parents : AddGroup(name, parent)
    \/ \E name \in NameSet : \E parent \in Parents : AddLayer(name, parent)
    \/ \E n \in 1..Len(tree) : RenameTrimmed(n)
    \/ call = NoCall /\ trailing_layer_group_name
    \/ call = NoCall /\ duplicated_layer_name_or_group

SpecNames == InitNames /\ [][NextNames]_vars

Nodes == 1..Len(tree)

AllNames ==
    {mapLayers[i].name : i \in 1..Len(mapLayers)}
    \cup {tree[n].name : n \in {m \in Nodes : tree[m].kind = "group"}}

\* C2, as claimed: every display name is mapped to the number of layers of the
\* project plus the number of groups, at any depth of the tree, that carry it.
C2_CountsEveryGroup ==
    Checked("duplicated_layer_name_or_group") =>
        /\ DOMAIN results = AllNames
        /\ \A name \in AllNames :
            results[name] =
                Cardinality({i \in 1..Len(mapLayers) : mapLayers[i].name = name})
                + Cardinality({n \in Nodes : tree[n].kind = "group" /\ tree[n].name = name})

RECURSIVE IsUnder(_, _)
\* n is d or an ancestor of d
IsUnder(d, n) == d = n \/ (tree[d].parent # 0 /\ IsUnder(tree[d].parent, n))

Position(seq, n) == CHOOSE k \in 1..Len(seq) : seq[k] = n

HasOuterSpace(name) == name # <<>> /\ (name[1] = " " \/ name[Len(name)] = " ")

\* C3: the walk reaches every node of the tree exactly once, a node before its
\* descendants and a whole subtree before the next sibling; the findings are, in
\* that order, one for every node whose name starts or ends with a space and none
\* for any other node, so none for a node renamed to its trimmed form.
C3_TrailingWalk ==
    Checked("trailing_layer_group_name") =>
        /\ Len(trace) = Len(tree)
        /\ Range(trace) = Nodes
        /\ \A n \in Nodes :
            tree[n].parent # 0 => Position(trace, tree[n].parent) < Position(trace, n)
        /\ \A a \in Nodes : \A b \in Nodes : \A d \in Nodes :
            (a < b /\ tree[a].parent = tree[b].parent /\ IsUnder(d, a))
                => Position(trace, d) < Position(trace, b)
        /\ \A n \in Nodes :
            Cardinality({k \in 1..Len(results) : results[k].node = n})
                = IF HasOuterSpace(NodeName(tree, mapLayers, n)) THEN 1 ELSE 0
        /\ \A k \in 1..Len(results) :
            /\ results[k].name = NodeName(tree, mapLayers, results[k].node)
            /\ \A j \in 1..(k - 1) :
                Position(trace, results[j].node) < Position(trace, results[k].node)
        /\ \A n \in edited : \A k \in 1..Len(results) : results[k].node # n

\* a nested node was reported and renamed, the re-run has no finding for it but has
\* one for another node, and the walk order differs from the index order
C3_Witness ==
    /\ Checked("trailing_layer_group_name")
    /\ \E n \in edited : tree[n].parent # 0
    /\ results # <<>>
    /\ \E k \in 1..(Len(trace) - 1) : trace[k] > trace[k + 1]

----------------------------------------------------------------------------
(* duplicated_layer_with_filter *)

\* QgsDataSourceUri(layer.source()) after setSql(''), as uri(True) prints it:
\* everything of the datasource but the filter
UriWithoutSql(layer) ==
    [table |-> layer.table, username |-> layer.username, password |-> layer.password]

\* QgsDataSourceUri.removePassword
RemovePassword(uri) == [uri EXCEPT !.password = ""]

IndexOf(seq, Test(_)) ==
    IF \E k \in 1..Len(seq) : Test(seq[k])
    THEN CHOOSE k \in 1..Len(seq) : Test(seq[k]) /\ \A j \in 1..(k - 1) : ~Test(seq[j])
    ELSE 0

\* unique_datasource: datasource -> {filter: layer name}, both in insertion order
UniqueDatasource(layers) ==
    LET Body(unique, layer) ==
            IF layer.sql = "" THEN unique
            ELSE LET uri == UriWithoutSql(layer)
                     SameUri(e) == e.datasource = uri
                     known == IF IndexOf(unique, SameUri) = 0
                              THEN Append(unique, [datasource |-> uri, filters |-> <<>>])
                              ELSE unique
                     at == IndexOf(known, SameUri)
                     SameFilter(f) == f.filter = layer.sql
                 IN  IF IndexOf(known[at].filters, SameFilter) = 0
                     THEN [known EXCEPT ![at].filters =
                              Append(@, [filter |-> layer.sql, layer |-> layer.name])]
                     ELSE known
    IN  Fold(Body, <<>>, layers)

\* the text returned: one sentence per datasource with several filters, then the
\* general advice; None when no layer has a filter
FilterReport(layers) ==
    LET unique == UniqueDatasource(layers)
        Sentence(text, e) ==
            IF Len(e.filters) <= 1 THEN text
            ELSE Append(text,
                        [layers |-> [k \in 1..Len(e.filters) |-> e.filters[k].layer],
                         datasource |-> RemovePassword(e.datasource),
                         uri_filter |-> [k \in 1..Len(e.filters) |-> e.filters[k].filter],
                         key |-> e.datasource])
    IN  IF Len(unique) = 0
        THEN [none |-> TRUE, sentences |-> <<>>, advice |-> FALSE]
        ELSE [none |-> FALSE, sentences |-> Fold(Sentence, <<>>, unique), advice |-> TRUE]

duplicated_layer_with_filter ==
    /\ call' = [fn |-> "duplicated_layer_with_filter", args |-> <<>>]
    /\ results' = FilterReport(mapLayers)
    /\ trace' = <<>>
    /\ UNCHANGED <<mapLayers, tree, fixed, edited, projectHome>>

FilterSamples ==
    {[BaseLayer EXCEPT !.provider = "postgres", !.table = t, !.username = "user",
                       !.password = pw, !.sql = sql, !.name = name] :
        t \in {"t1", "t2"}, pw \in {"", "pw"}, sql \in {"", "a=1", "a=2"},
        name \in {<<"A">>, <<"B">>}}

InitFilter == InitProject(Projects(FilterSamples))

NextFilter == call = NoCall /\ duplicated_layer_with_filter

SpecFilter == InitFilter /\ [][NextFilter]_vars

FiltersOn(uri) ==
    {mapLayers[i].sql : i \in {j \in 1..Len(mapLayers) :
        mapLayers[j].sql # "" /\ UriWithoutSql(mapLayers[j]) = uri}}

FilteredUris ==
    {UriWithoutSql(mapLayers[i]) : i \in {j \in 1..Len(mapLayers) : mapLayers[j].sql # ""}}

\* C10, as claimed: a datasource (filter stripped) gets a sentence exactly when its
\* layers carry two or more distinct non-empty filters, the sentence lists each of
\* them once with the password removed from the datasource, and when no datasource
\* has two distinct filters the function returns no report.
C10_ReportOnlyDuplicates ==
    Checked("duplicated_layer_with_filter") =>
        /\ \A uri \in FilteredUris :
            Cardinality({k \in 1..Len(results.sentences) : results.sentences[k].key = uri})
                = IF Cardinality(FiltersOn(uri)) >= 2 THEN 1 ELSE 0
        /\ \A k \in 1..Len(results.sentences) :
            LET e == results.sentences[k] IN
            /\ e.key \in FilteredUris
            /\ Range(e.uri_filter) = FiltersOn(e.key)
            /\ Len(e.uri_filter) = Cardinality(FiltersOn(e.key))
            /\ e.datasource.password = ""
        /\ (\A uri \in FilteredUris : Cardinality(FiltersOn(uri)) < 2) => results.none

----------------------------------------------------------------------------
(* simplify_provider_side, use_estimated_metadata *)

\* lizmap.tools.update_uri: the layer takes the uri as its datasource
update_uri(layer, uri) == [layer EXCEPT !.estimatedMetadata = uri.estimatedMetadata]

\* a fix that leaves the layer's simplify method as it was
SimplifyLayerFixNotStored(layer, fix) ==
    IF ~is_vector_pg(layer, TRUE) THEN [found |-> FALSE, layer |-> layer]
    ELSE IF layer.geometry = "point" THEN [found |-> FALSE, layer |-> layer]
    ELSE IF ~layer.forceLocal THEN [found |-> FALSE, layer |-> layer]
    ELSE [found |-> TRUE, layer |-> layer]

\* the loop body of simplify_provider_side
SimplifyLayer(layer, fix) ==
    IF ~is_vector_pg(layer, TRUE) THEN [found |-> FALSE, layer |-> layer]
    ELSE IF layer.geometry = "point" THEN [found |-> FALSE, layer |-> layer]
    ELSE IF ~layer.forceLocal THEN [found |-> FALSE, layer |-> layer]
    ELSE [found |-> TRUE,
          layer |-> IF fix THEN [layer EXCEPT !.forceLocal = FALSE] ELSE layer]

\* the loop body of use_estimated_metadata
EstimatedLayer(layer, fix) ==
    IF ~is_vector_pg(layer, TRUE) THEN [found |-> FALSE, layer |-> layer]
    ELSE LET uri == [estimatedMetadata |-> layer.estimatedMetadata] IN
         IF ~uri.estimatedMetadata
         THEN [found |-> TRUE,
               layer |-> IF fix
                         THEN update_uri(layer, [uri EXCEPT !.estimatedMetadata = TRUE])
                         ELSE layer]
         ELSE [found |-> FALSE, layer |-> layer]

\* the list returned and the layers after the loop
RunRule(Body(_, _), layers, fix) ==
    [results |-> LET Add(res, layer) ==
                        IF Body(layer, fix).found THEN Append(res, layer.id) ELSE res
                 IN  Fold(Add, <<>>, layers),
     layers |-> [i \in 1..Len(layers) |-> Body(layers[i], fix).layer]]

\* trace keeps the project and the history as they were when the rule started
Ran(fn, fix, out) ==
    /\ call' = [fn |-> fn, args |-> [fix |-> fix]]
    /\ results' = out.results
    /\ mapLayers' = out.layers
    /\ trace' = [before |-> mapLayers, fixed |-> fixed, call |-> call]
    /\ fixed' = IF fix THEN fixed \cup {<<fn, id>> : id \in Range(out.results)} ELSE fixed
    /\ UNCHANGED <<tree, edited, projectHome>>

simplify_provider_side(fix) ==
    Ran("simplify_provider_side", fix, RunRule(SimplifyLayer, mapLayers, fix))

use_estimated_metadata(fix) ==
    Ran("use_estimated_metadata", fix, RunRule(EstimatedLayer, mapLayers, fix))

FixSamples ==
    {[BaseLayer EXCEPT !.provider = "postgres", !.geometry = g, !.forceLocal = f,
                       !.estimatedMetadata = e] :
        g \in {"none", "point", "other"}, f \in BOOLEAN, e \in BOOLEAN}
    \cup {[BaseLayer EXCEPT !.forceLocal = TRUE], WmsLayer}

InitFix == InitProject(Projects(FixSamples))

NextFix ==
    \/ \E fix \in BOOLEAN : simplify_provider_side(fix)
    \/ \E fix \in BOOLEAN : use_estimated_metadata(fix)

SpecFix == InitFix /\ [][NextFix]_vars

FixRules == {"simplify_provider_side", "use_estimated_metadata"}

\* what the rule is about, read off the layer
Violates(fn, layer) ==
    /\ layer.kind = "vector" /\ layer.provider = "postgres" /\ layer.geometry # "none"
    /\ IF fn = "simplify_provider_side"
       THEN layer.geometry # "point" /\ layer.forceLocal
       ELSE ~layer.estimatedMetadata

\* C7: a run with fix=True returns every violating layer and leaves it corrected;
\* a later run of the same rule, with or without fix, returns no layer an earlier
\* fixing run of that rule returned and changes none of them, and a run that
\* directly follows a fixing run of the same rule returns nothing and changes
\* no layer at all.
C7_FixIdempotent ==
    \A fn \in FixRules :
        Checked(fn) =>
            /\ Len(mapLayers) = Len(trace.before)
            /\ \A i \in 1..Len(mapLayers) :
                /\ (mapLayers[i].id \in Range(results)) <=> Violates(fn, trace.before[i])
                /\ call.args.fix => ~Violates(fn, mapLayers[i])
                /\ <<fn, mapLayers[i].id>> \in trace.fixed =>
                      /\ mapLayers[i].id \notin Range(results)
                      /\ mapLayers[i] = trace.before[i]
            /\ (trace.call.fn = fn /\ trace.call.args.fix) =>
                  /\ results = <<>>
                  /\ mapLayers = trace.before

\* a fixing run reported a layer, another rule ran, and the re-run of the first
\* rule reports nothing although the project still has the fixed layer
C7_Witness ==
    \E fn \in FixRules :
        /\ Checked(fn)
        /\ \E i \in 1..Len(mapLayers) : <<fn, mapLayers[i].id>> \in trace.fixed
        /\ results = <<>>
        /\ trace.call.fn = fn /\ trace.call.args.fix
        /\ Cardinality({r[1] : r \in fixed}) = 2

====
